---- MODULE Spec2Model ----
(***************************************************************************)
(* A model of the FTP browser plugin (plugins/ftp_browser/ftp_browser.py)  *)
(* and of its HTTP blueprint (blueprints/ftp_browser_api.py).              *)
(*                                                                         *)
(* File names are sequences of one-character strings, remote paths are     *)
(* sequences of names (the root "/" is the empty sequence), and the remote *)
(* server is a tree of directories together with the capabilities and the  *)
(* faults it shows to the client.                                          *)
(***************************************************************************)
EXTENDS Integers, Sequences, FiniteSets, TLC

VARIABLES
    srv,         \* the remote server: tree, capabilities, faults
    alive,       \* the FTPBrowser instance exists (between __init__ and __del__)
    ftp,         \* self.ftp: 0 is None, otherwise the index of a handle in conns
    conns,       \* the state of every connection handle the instance has created
    workdir,     \* the working directory of the session self.ftp holds
    temp_files,  \* self.temp_files: the scratch paths recorded for cleanup
    disk,        \* the scratch files that exist on the local disk
    result,      \* what the last operation returned or raised
    stack,       \* the levels of the _list_images_recursive call in progress
    log          \* what that call has done so far: levels entered and left, listings

vars == <<srv, alive, ftp, conns, workdir, temp_files, disk, result, stack, log>>

(***************************************************************************)
(* Bounds of the model.                                                    *)
(***************************************************************************)
MaxConns == 2      \* connection handles one behaviour may create
MaxScratch == 2    \* scratch files one behaviour may create
MaxSide == 4       \* the longest side of an image or a display, in pixels

(***************************************************************************)
(* Characters and strings: str.lower(), str.endswith(), and the order of   *)
(* Python strings (by code point).                                         *)
(***************************************************************************)
UpperCase == <<"A","B","C","D","E","F","G","H","I","J","K","L","M",
               "N","O","P","Q","R","S","T","U","V","W","X","Y","Z">>
LowerCase == <<"a","b","c","d","e","f","g","h","i","j","k","l","m",
               "n","o","p","q","r","s","t","u","v","w","x","y","z">>

Chars == {"."} \cup {UpperCase[i] : i \in DOMAIN UpperCase}
             \cup {LowerCase[i] : i \in DOMAIN LowerCase}

\* ord(c) for the characters file names are made of: '.', 'A'..'Z', 'a'..'z'
Ord == [c \in Chars |->
          IF \E i \in DOMAIN UpperCase : UpperCase[i] = c
          THEN 64 + (CHOOSE i \in DOMAIN UpperCase : UpperCase[i] = c)
          ELSE IF \E i \in DOMAIN LowerCase : LowerCase[i] = c
          THEN 96 + (CHOOSE i \in DOMAIN LowerCase : LowerCase[i] = c)
          ELSE 46]

\* str.lower() of one character
LowerChar == [c \in Chars |->
                IF \E i \in DOMAIN UpperCase : UpperCase[i] = c
                THEN LowerCase[CHOOSE i \in DOMAIN UpperCase : UpperCase[i] = c]
                ELSE c]

\* name.lower()
Lower(s) == [i \in DOMAIN s |-> LowerChar[s[i]]]

\* s.endswith(suffix)
EndsWith(s, suffix) ==
    /\ Len(s) >= Len(suffix)
    /\ SubSeq(s, Len(s) - Len(suffix) + 1, Len(s)) = suffix

\* a < b for Python strings
StrLess(a, b) ==
    \E k \in 1..(Len(a) + 1) :
        /\ \A j \in 1..(k - 1) : j <= Len(b) /\ a[j] = b[j]
        /\ \/ k = Len(a) + 1 /\ Len(b) >= k
           \/ k <= Len(a) /\ k <= Len(b) /\ Ord[a[k]] < Ord[b[k]]

image_exts == << <<".","j","p","g">>, <<".","j","p","e","g">>, <<".","p","n","g">>,
                 <<".","b","m","p">>, <<".","g","i","f">> >>

\* a faulty variant of IsImageName: the extension filter lets every name through
IsImageNameAlways(name) == TRUE

\* name.lower().endswith(image_exts)
IsImageName(name) ==
    LET lowered == Lower(name)
    IN \E i \in DOMAIN image_exts : EndsWith(lowered, image_exts[i])

\* name in (".", "..")
IsDotName(name) == name \in { <<".">>, <<".", ".">> }

(***************************************************************************)
(* list.sort(key=lambda x: x["name"].lower()): a stable sort.              *)
(***************************************************************************)
SortKey(e) == Lower(e.name)

\* e goes after every element whose key is not greater than its own
InsertSorted(sorted, e) ==
    LET key == SortKey(e)
        later == {i \in DOMAIN sorted : StrLess(key, SortKey(sorted[i]))}
        at == IF later = {} THEN Len(sorted) + 1
              ELSE CHOOSE i \in later : \A j \in later : i <= j
    IN SubSeq(sorted, 1, at - 1) \o <<e>> \o SubSeq(sorted, at, Len(sorted))

RECURSIVE SortFrom(_, _)
SortFrom(sorted, rest) ==
    IF rest = <<>> THEN sorted
    ELSE SortFrom(InsertSorted(sorted, Head(rest)), Tail(rest))

\* a faulty variant of SortByName: the entries stay in the order the server sent them
SortByNameUnsorted(entries) == entries

SortByName(entries) == SortFrom(<<>>, entries)

(***************************************************************************)
(* The remote server.  An entry of a directory is what MLSD reports for    *)
(* it: a name and a type; "image" says whether the entry is an image file  *)
(* and "content" what its bytes decode to.                                 *)
(***************************************************************************)
nDot == <<".">>
nDotDot == <<".", ".">>
n_a_jpg == <<"a", ".", "j", "p", "g">>
n_A_JPG == <<"A", ".", "J", "P", "G">>
n_B_Png == <<"B", ".", "P", "n", "g">>
n_c_txt == <<"c", ".", "t", "x", "t">>
n_jpg == <<"j", "p", "g">>
n_f_gif == <<"f", ".", "g", "i", "f">>
n_g_jpeg == <<"g", ".", "j", "p", "e", "g">>
n_h_bmp == <<"h", ".", "b", "m", "p">>
n_d == <<"d">>
n_E == <<"E">>
n_x_jpg == <<"x", ".", "j", "p", "g">>

Root == <<>>
NoDir == << <<"*">> >>

DirEntry(name) == [name |-> name, type |-> "dir", image |-> FALSE, content |-> "none"]
ImageFile(name, content) == [name |-> name, type |-> "file", image |-> TRUE, content |-> content]
OtherFile(name) == [name |-> name, type |-> "file", image |-> FALSE, content |-> "text"]
CurDir == [name |-> nDot, type |-> "cdir", image |-> FALSE, content |-> "none"]
ParDir == [name |-> nDotDot, type |-> "pdir", image |-> FALSE, content |-> "none"]

\* a nested tree: images and other files at three depths, names in mixed case
TreeDeep ==
    (Root :> <<CurDir, ParDir, ImageFile(n_B_Png, "landscape"), OtherFile(n_c_txt),
               DirEntry(n_d), ImageFile(n_a_jpg, "portrait"), DirEntry(n_E)>>)
    @@ (<<n_d>> :> <<CurDir, ParDir, DirEntry(n_E), OtherFile(n_jpg),
                     ImageFile(n_A_JPG, "square")>>)
    @@ (<<n_d, n_E>> :> <<ImageFile(n_f_gif, "corrupt"), OtherFile(n_c_txt)>>)
    @@ (<<n_E>> :> <<ImageFile(n_h_bmp, "portrait"), ImageFile(n_g_jpeg, "sideways")>>)

\* a directory whose name looks like an image file's
TreeDirNamedLikeImage ==
    (Root :> <<DirEntry(n_x_jpg), ImageFile(n_a_jpg, "landscape")>>)
    @@ (<<n_x_jpg>> :> <<ImageFile(n_B_Png, "portrait")>>)

\* exactly one image, below the root
TreeOneImage ==
    (Root :> <<OtherFile(n_c_txt), DirEntry(n_d)>>)
    @@ (<<n_d>> :> <<ImageFile(n_a_jpg, "portrait")>>)

\* no image at all
TreeNoImage ==
    (Root :> <<OtherFile(n_c_txt), DirEntry(n_d)>>)
    @@ (<<n_d>> :> <<>>)

Trees == {TreeDeep, TreeDirNamedLikeImage, TreeOneImage, TreeNoImage}

Dirs(tree) == DOMAIN tree

\* what one command may do: succeed, or raise error_perm, UnicodeDecodeError,
\* or another exception (error_temp, OSError, EOFError)
NoFault == [cwd |-> "ok", mlsd |-> "ok", nlst |-> "ok"]
Faults ==
    { [cwd |-> "perm", mlsd |-> "ok", nlst |-> "ok"],
      [cwd |-> "temp", mlsd |-> "ok", nlst |-> "ok"],
      [cwd |-> "ok", mlsd |-> "perm", nlst |-> "perm"],
      [cwd |-> "ok", mlsd |-> "perm", nlst |-> "decode"],
      [cwd |-> "ok", mlsd |-> "decode", nlst |-> "decode"],
      [cwd |-> "ok", mlsd |-> "decode", nlst |-> "ok"],
      [cwd |-> "ok", mlsd |-> "temp", nlst |-> "ok"],
      [cwd |-> "ok", mlsd |-> "perm", nlst |-> "temp"] }

\* a server: its tree, whether it supports MLSD (rich listing), and at most
\* one directory (never the login directory) at which commands fail
Servers ==
    { [tree |-> t, rich |-> r, fdir |-> NoDir, fault |-> NoFault] :
          t \in Trees, r \in BOOLEAN }
    \cup
    { s \in [tree : Trees, rich : BOOLEAN, fdir : UNION {Dirs(t) : t \in Trees},
             fault : Faults] :
          s.fdir \in Dirs(s.tree) \ {Root} }

(***************************************************************************)
(* The ftplib calls.  st is the state of the handle the command is issued  *)
(* on: "open" (connected and logged in), "nologin" (connected, the login   *)
(* was rejected), "unconnected" (FTP() was built, connect() failed: the    *)
(* handle has no socket, and every command raises AttributeError).         *)
(***************************************************************************)
CmdGate(st) ==
    IF st = "unconnected" THEN "attr"
    ELSE IF st = "nologin" THEN "perm"
    ELSE "ok"

\* ftp.pwd()
PwdOutcome(st) == CmdGate(st)

\* ftp.cwd(p): a file or a missing path is rejected with error_perm
CwdOutcome(st, p) ==
    IF CmdGate(st) # "ok" THEN CmdGate(st)
    ELSE IF p \notin Dirs(srv.tree) THEN "perm"
    ELSE IF p = srv.fdir THEN srv.fault.cwd
    ELSE "ok"

\* list(ftp.mlsd()) in directory p: a server without MLSD rejects it
MlsdOutcome(st, p) ==
    IF CmdGate(st) # "ok" THEN CmdGate(st)
    ELSE IF p = srv.fdir /\ srv.fault.mlsd # "ok" THEN srv.fault.mlsd
    ELSE IF ~srv.rich THEN "perm"
    ELSE "ok"

\* ftp.nlst() in directory p
NlstOutcome(st, p) ==
    IF CmdGate(st) # "ok" THEN CmdGate(st)
    ELSE IF p = srv.fdir THEN srv.fault.nlst
    ELSE "ok"

\* the (name, facts) pairs of MLSD, the names of NLST
MlsdEntries(p) == [i \in DOMAIN srv.tree[p] |->
                      [name |-> srv.tree[p][i].name, type |-> srv.tree[p][i].type]]
NlstNames(p) == [i \in DOMAIN srv.tree[p] |-> srv.tree[p][i].name]

\* os.path.join(path, name).replace("\\", "/") and f"{path.rstrip('/')}/{name}"
JoinPath(path, name) == Append(path, name)

\* os.path.dirname(path) if path != "/" else "/"
ParentPath(path) == IF path = Root THEN Root ELSE SubSeq(path, 1, Len(path) - 1)

(***************************************************************************)
(* _list_directory (the plugin's method and the blueprint's function have  *)
(* the same body).  A listing is returned as a record; "ok" is FALSE when  *)
(* the call raised, and "cwd" is the working directory it leaves behind.   *)
(***************************************************************************)
ListingFailed(cause, cwd) ==
    [ok |-> FALSE, kind |-> "RuntimeError", msg |-> "Failed to list directory",
     cause |-> cause, current_path |-> Root, parent_path |-> Root,
     directories |-> <<>>, files |-> <<>>, cwd |-> cwd]

\* the loop over the MLSD entries
RECURSIVE ClassifyMlsd(_, _, _)
ClassifyMlsd(path, entries, acc) ==
    IF entries = <<>> THEN acc
    ELSE LET e == Head(entries)
             full == JoinPath(path, e.name)
         IN IF IsDotName(e.name) THEN ClassifyMlsd(path, Tail(entries), acc)
            ELSE IF e.type = "dir" THEN
                ClassifyMlsd(path, Tail(entries),
                    [acc EXCEPT !.directories =
                        Append(@, [name |-> e.name, path |-> full, type |-> "dir",
                                   size |-> "none"])])
            ELSE IF e.type = "file" /\ IsImageName(e.name) THEN
                ClassifyMlsd(path, Tail(entries),
                    [acc EXCEPT !.files =
                        Append(@, [name |-> e.name, path |-> full, type |-> "file",
                                   size |-> "facts"])])
            ELSE ClassifyMlsd(path, Tail(entries), acc)

\* a faulty variant of ClassifyNlst: no name is probed, every name is a file
RECURSIVE ClassifyNlstAllFiles(_, _, _, _)
ClassifyNlstAllFiles(st, path, names, acc) ==
    IF names = <<>> THEN acc
    ELSE LET name == Head(names)
             full == JoinPath(path, name)
         IN IF IsDotName(name) \/ ~IsImageName(name)
            THEN ClassifyNlstAllFiles(st, path, Tail(names), acc)
            ELSE ClassifyNlstAllFiles(st, path, Tail(names),
                    [acc EXCEPT !.files =
                        Append(@, [name |-> name, path |-> full, type |-> "file",
                                   size |-> "unknown"])])

\* the loop over the NLST names: each name is probed with cwd; acc.raised is
\* set when a probe raises something other than error_perm
RECURSIVE ClassifyNlst(_, _, _, _)
ClassifyNlst(st, path, names, acc) ==
    IF names = <<>> \/ acc.raised # "none" THEN acc
    ELSE LET name == Head(names)
             full == JoinPath(path, name)
             curr_dir == acc.cwd
             probe == IF PwdOutcome(st) # "ok" THEN PwdOutcome(st)
                      ELSE CwdOutcome(st, full)
             back == CwdOutcome(st, curr_dir)
         IN IF IsDotName(name) THEN ClassifyNlst(st, path, Tail(names), acc)
            ELSE IF probe = "ok" /\ back = "ok" THEN
                ClassifyNlst(st, path, Tail(names),
                    [acc EXCEPT !.directories =
                        Append(@, [name |-> name, path |-> full, type |-> "dir",
                                   size |-> "none"])])
            ELSE IF probe = "perm" \/ (probe = "ok" /\ back = "perm") THEN
                ClassifyNlst(st, path, Tail(names),
                    [acc EXCEPT
                        !.cwd = IF probe = "ok" THEN full ELSE @,
                        !.files = IF IsImageName(name)
                                  THEN Append(@, [name |-> name, path |-> full,
                                                  type |-> "file", size |-> "unknown"])
                                  ELSE @])
            ELSE [acc EXCEPT !.raised = IF probe = "ok" THEN back ELSE probe,
                             !.cwd = IF probe = "ok" THEN full ELSE @]

\* _list_directory on a handle in state st whose working directory is cwd0
ListDirectoryOn(st, path, cwd0) ==
    LET start == [directories |-> <<>>, files |-> <<>>, cwd |-> path, raised |-> "none"]
        done(acc) ==
            [ok |-> TRUE, kind |-> "none", msg |-> "none", cause |-> "none",
             current_path |-> path, parent_path |-> ParentPath(path),
             directories |-> SortByName(acc.directories),
             files |-> SortByName(acc.files), cwd |-> acc.cwd]
    IN IF CwdOutcome(st, path) # "ok" THEN ListingFailed(CwdOutcome(st, path), cwd0)
       ELSE IF MlsdOutcome(st, path) = "ok"
            THEN done(ClassifyMlsd(path, MlsdEntries(path), start))
       ELSE IF MlsdOutcome(st, path) \in {"attr", "perm"} THEN
            IF NlstOutcome(st, path) # "ok"
            THEN ListingFailed(NlstOutcome(st, path), path)
            ELSE LET acc == ClassifyNlst(st, path, NlstNames(path), start)
                 IN IF acc.raised # "none" THEN ListingFailed(acc.raised, acc.cwd)
                    ELSE done(acc)
       ELSE ListingFailed(MlsdOutcome(st, path), path)

(***************************************************************************)
(* _list_images_recursive.  The walk returns a record: "ok" is FALSE when  *)
(* the level raised RuntimeError, "images" are the paths it collected and  *)
(* "cwd" is the working directory it leaves behind.                        *)
(***************************************************************************)
WalkRaised(cause, cwd) ==
    [ok |-> FALSE, kind |-> "RuntimeError", msg |-> "Failed to list images",
     cause |-> cause, images |-> <<>>, cwd |-> cwd]

WalkReturned(images, cwd) ==
    [ok |-> TRUE, kind |-> "none", msg |-> "none", cause |-> "none",
     images |-> images, cwd |-> cwd]

\* a faulty variant of WalkSkip: a failing entry aborts the level
WalkSkipAborts(acc, cwd) == [acc EXCEPT !.cwd = cwd, !.raised = "entry"]

\* except Exception: continue -- the entry is skipped, the loop goes on
WalkSkip(acc, cwd) == [acc EXCEPT !.cwd = cwd]

RECURSIVE ListImagesRecursiveOn(_, _, _)
RECURSIVE WalkEntries(_, _, _, _, _)

\* the loop over the entries of one level; an entry's type is "unknown" in
\* the NLST fallback (facts = {})
WalkEntries(st, path, current_dir, entries, acc) ==
    IF entries = <<>> \/ acc.raised # "none" THEN acc
    ELSE LET e == Head(entries)
             rest == Tail(entries)
             full == JoinPath(path, e.name)
             keep == IF IsImageName(e.name)
                     THEN [acc EXCEPT !.images = Append(@, full)]
                     ELSE acc
             recurse(cwd) ==
                 LET r == ListImagesRecursiveOn(st, full, cwd)
                 IN IF r.ok THEN [acc EXCEPT !.images = @ \o r.images, !.cwd = r.cwd]
                    ELSE WalkSkip(acc, r.cwd)
             probe == CwdOutcome(st, full)
             back == CwdOutcome(st, current_dir)
         IN IF IsDotName(e.name) THEN WalkEntries(st, path, current_dir, rest, acc)
            ELSE IF e.type = "dir" THEN
                WalkEntries(st, path, current_dir, rest, recurse(acc.cwd))
            ELSE IF e.type = "file" THEN
                WalkEntries(st, path, current_dir, rest, keep)
            ELSE IF e.type = "unknown" THEN
                IF probe = "ok" /\ back = "ok" THEN
                    WalkEntries(st, path, current_dir, rest, recurse(current_dir))
                ELSE IF probe = "ok" /\ back \in {"perm", "decode"} THEN
                    WalkEntries(st, path, current_dir, rest, [keep EXCEPT !.cwd = full])
                ELSE IF probe = "ok" THEN
                    WalkEntries(st, path, current_dir, rest, WalkSkip(acc, full))
                ELSE IF probe \in {"perm", "decode"} THEN
                    WalkEntries(st, path, current_dir, rest, keep)
                ELSE WalkEntries(st, path, current_dir, rest, WalkSkip(acc, acc.cwd))
            ELSE WalkEntries(st, path, current_dir, rest, acc)

\* _list_images_recursive(path) on a handle in state st whose working
\* directory is cwd0
ListImagesRecursiveOn(st, path, cwd0) ==
    LET current_dir == cwd0
        start == [images |-> <<>>, cwd |-> path, raised |-> "none"]
        finish(acc) ==
            IF acc.raised # "none" THEN WalkRaised(acc.raised, acc.cwd)
            ELSE IF CwdOutcome(st, current_dir) # "ok"
                 THEN WalkRaised(CwdOutcome(st, current_dir), acc.cwd)
            ELSE WalkReturned(acc.images, current_dir)
        typed == MlsdEntries(path)
        untyped == [i \in DOMAIN NlstNames(path) |->
                       [name |-> NlstNames(path)[i], type |-> "unknown"]]
    IN IF PwdOutcome(st) # "ok" THEN WalkRaised(PwdOutcome(st), cwd0)
       ELSE IF CwdOutcome(st, path) # "ok" THEN WalkRaised(CwdOutcome(st, path), cwd0)
       ELSE IF MlsdOutcome(st, path) = "ok"
            THEN finish(WalkEntries(st, path, current_dir, typed, start))
       ELSE IF MlsdOutcome(st, path) \in {"attr", "perm", "decode"} THEN
            IF NlstOutcome(st, path) = "ok"
            THEN finish(WalkEntries(st, path, current_dir, untyped, start))
            ELSE IF NlstOutcome(st, path) = "decode" THEN
                IF CwdOutcome(st, current_dir) = "ok"
                THEN WalkReturned(<<>>, current_dir)
                ELSE WalkRaised(CwdOutcome(st, current_dir), path)
            ELSE WalkRaised(NlstOutcome(st, path), path)
       ELSE WalkRaised(MlsdOutcome(st, path), path)

(***************************************************************************)
(* _list_images_recursive, step by step.  The call in progress is a record *)
(*   W = [stack, cwd, log, out]                                            *)
(* stack holds one frame for each level that is running (the innermost     *)
(* last): its path, the working directory pwd() reported when it was       *)
(* entered, the entries its loop has not visited yet and the images it has *)
(* collected; cwd is the session's working directory; log records every    *)
(* level entered and left and every listing command; out is "running"      *)
(* until the outermost level has ended.                                    *)
(***************************************************************************)
Event(ev, path, from, to, how) ==
    [ev |-> ev, path |-> path, from |-> from, to |-> to, how |-> how]

Frame(path, current_dir, entries) ==
    [path |-> path, current_dir |-> current_dir, entries |-> entries, images |-> <<>>]

Running == [ok |-> TRUE, images |-> <<>>, cause |-> "running"]

\* a level has ended with r: the level that called it extends its images, or
\* skips the entry when it raised (except Exception: continue); the outermost
\* level's end is the end of the call
Deliver(W, r) ==
    IF W.stack = <<>> THEN [W EXCEPT !.out = r]
    ELSE IF r.ok THEN [W EXCEPT !.stack[Len(W.stack)].images = @ \o r.images]
    ELSE W

\* a faulty variant of AbandonCatches: the decode error of nlst() is not caught
AbandonCatchesNothing(exc) == FALSE

\* "except UnicodeDecodeError" around the nlst() fallback
AbandonCatches(exc) == exc = "decode"

\* a level is entered for path: pwd(), cwd(path), then the listing
EnterLevel(W, st, path) ==
    LET current_dir == W.cwd
        enter == Event("enter", path, current_dir, current_dir, "none")
        mlsd == MlsdOutcome(st, path)
        nlst == NlstOutcome(st, path)
        evM == Event("mlsd", path, path, path, mlsd)
        evN == Event("nlst", path, path, path, nlst)
        typed == MlsdEntries(path)
        untyped == [i \in DOMAIN NlstNames(path) |->
                       [name |-> NlstNames(path)[i], type |-> "unknown"]]
        raised(cwd, cause, events) ==
            Deliver([W EXCEPT !.cwd = cwd,
                              !.log = @ \o events
                                        \o <<Event("leave", path, current_dir, cwd, "raised")>>],
                    [ok |-> FALSE, images |-> <<>>, cause |-> cause])
        entered(entries, events) ==
            [W EXCEPT !.cwd = path, !.log = @ \o events,
                      !.stack = Append(@, Frame(path, current_dir, entries))]
    IN IF PwdOutcome(st) # "ok" THEN raised(W.cwd, PwdOutcome(st), <<enter>>)
       ELSE IF CwdOutcome(st, path) # "ok"
            THEN raised(W.cwd, CwdOutcome(st, path), <<enter>>)
       ELSE IF mlsd = "ok" THEN entered(typed, <<enter, evM>>)
       ELSE IF mlsd \in {"attr", "perm", "decode"} THEN
            IF nlst = "ok" THEN entered(untyped, <<enter, evM, evN>>)
            ELSE IF AbandonCatches(nlst) THEN
                IF CwdOutcome(st, current_dir) = "ok"
                THEN Deliver([W EXCEPT !.cwd = current_dir,
                                       !.log = @ \o <<enter, evM, evN,
                                                      Event("leave", path, current_dir,
                                                            current_dir, "abandoned")>>],
                             [ok |-> TRUE, images |-> <<>>, cause |-> "none"])
                ELSE raised(path, CwdOutcome(st, current_dir), <<enter, evM, evN>>)
            ELSE raised(path, nlst, <<enter, evM, evN>>)
       ELSE raised(path, mlsd, <<enter, evM>>)

\* a faulty variant of LeaveLevel: the level whose loop is over never returns
LeaveLevelStays(W, st) == W

\* the loop of the innermost level is over: cwd(current_dir), return images
LeaveLevel(W, st) ==
    LET top == W.stack[Len(W.stack)]
        popped == [W EXCEPT !.stack = SubSeq(@, 1, Len(@) - 1)]
        back == CwdOutcome(st, top.current_dir)
    IN IF back = "ok"
       THEN Deliver([popped EXCEPT !.cwd = top.current_dir,
                                   !.log = Append(@, Event("leave", top.path, top.current_dir,
                                                           top.current_dir, "returned"))],
                    [ok |-> TRUE, images |-> top.images, cause |-> "none"])
       ELSE Deliver([popped EXCEPT !.log = Append(@, Event("leave", top.path, top.current_dir,
                                                           W.cwd, "raised"))],
                    [ok |-> FALSE, images |-> <<>>, cause |-> back])

\* one step of the innermost level: its next entry, or its end
StepLevel(W, st) ==
    LET n == Len(W.stack)
        top == W.stack[n]
        e == Head(top.entries)
        full == JoinPath(top.path, e.name)
        next == [W EXCEPT !.stack[n].entries = Tail(@)]
        keep == IF IsImageName(e.name)
                THEN [next EXCEPT !.stack[n].images = Append(@, full)]
                ELSE next
        probe == CwdOutcome(st, full)
        back == CwdOutcome(st, top.current_dir)
    IN IF top.entries = <<>> THEN LeaveLevel(W, st)
       ELSE IF IsDotName(e.name) THEN next
       ELSE IF e.type = "dir" THEN EnterLevel(next, st, full)
       ELSE IF e.type = "file" THEN keep
       ELSE IF e.type = "unknown" THEN
           IF probe = "ok" /\ back = "ok"
           THEN EnterLevel([next EXCEPT !.cwd = top.current_dir], st, full)
           ELSE IF probe = "ok" /\ back \in {"perm", "decode"}
                THEN [keep EXCEPT !.cwd = full]
           ELSE IF probe = "ok" THEN [next EXCEPT !.cwd = full]
           ELSE IF probe \in {"perm", "decode"} THEN keep
           ELSE next
       ELSE next

(***************************************************************************)
(* The facade: the FTPBrowser instance's connection and scratch files.     *)
(* The operators below take the instance's state as a record               *)
(*   F = [ftp, conns, cwd, temp_files, disk]                               *)
(* and return the state the method leaves.  conns[h] is the state of       *)
(* handle h: "open", "nologin", "unconnected", "closed" (quit() went       *)
(* through) or "abandoned" (quit() raised, the socket was left open).      *)
(* A scratch file's local path is its index in disk, and disk[i] says      *)
(* whether the file exists.                                                *)
(***************************************************************************)
Facade == [ftp |-> ftp, conns |-> conns, cwd |-> workdir,
           temp_files |-> temp_files, disk |-> disk]

\* the state of the handle self.ftp names
HandleState(F) == F.conns[F.ftp]

\* self.ftp.quit() on a handle: an unconnected handle stays as it is
QuitHandle(state, quit) ==
    IF state = "unconnected" THEN state
    ELSE IF quit = "ok" THEN "closed"
    ELSE "abandoned"

\* what self.ftp.quit() raises: AttributeError on a handle without socket, an
\* ftplib or socket error when the command fails
QuitRaises(state, quit) ==
    IF state = "unconnected" THEN "AttributeError"
    ELSE IF quit = "ok" THEN "none"
    ELSE "error"

\* a faulty variant of CloseCatches: the except clause lets the error through
CloseCatchesNothing(exc) == FALSE

\* "except Exception" of _close_ftp: AttributeError, the ftplib errors, OSError
\* and EOFError are all subclasses of Exception
CloseCatches(exc) == exc \in {"AttributeError", "error"}

\* the exception _close_ftp lets through to its caller ("none": it returns)
CloseFtpRaises(F, quit) ==
    IF F.ftp = 0 THEN "none"
    ELSE IF QuitRaises(HandleState(F), quit) = "none" THEN "none"
    ELSE IF CloseCatches(QuitRaises(HandleState(F), quit)) THEN "none"
    ELSE QuitRaises(HandleState(F), quit)

\* _close_ftp: quit() may raise; self.ftp becomes None either way
CloseFtp(F, quit) ==
    IF F.ftp = 0 THEN F
    ELSE [F EXCEPT !.conns[F.ftp] = QuitHandle(@, quit), !.ftp = 0, !.cwd = Root]

\* a faulty variant of ConnectFtp: the session held is not closed first
ConnectFtpKeepsOld(F, quit, outcome) ==
    [F |-> [F EXCEPT !.conns = Append(@, IF outcome = "ok" THEN "open"
                                         ELSE IF outcome = "rejected" THEN "nologin"
                                         ELSE "unconnected"),
                     !.ftp = Len(F.conns) + 1,
                     !.cwd = Root],
     ok |-> outcome = "ok",
     kind |-> IF outcome = "ok" THEN "none" ELSE "RuntimeError",
     msg |-> IF outcome = "ok" THEN "none" ELSE "Failed to connect to FTP server"]

\* _connect_ftp: the outcome is "ok", "refused" (connect() raises) or
\* "rejected" (login() raises)
ConnectFtp(F, quit, outcome) ==
    LET closed == CloseFtp(F, quit)
        state == IF outcome = "ok" THEN "open"
                 ELSE IF outcome = "rejected" THEN "nologin"
                 ELSE "unconnected"
        F1 == [closed EXCEPT !.conns = Append(@, state),
                             !.ftp = Len(closed.conns) + 1,
                             !.cwd = Root]
    IN [F |-> F1, ok |-> outcome = "ok",
        kind |-> IF outcome = "ok" THEN "none" ELSE "RuntimeError",
        msg |-> IF outcome = "ok" THEN "none" ELSE "Failed to connect to FTP server"]

\* _cleanup_temp_files: every recorded path that exists is removed, the
\* record is emptied
CleanupTempFiles(F) ==
    [F EXCEPT
        !.disk = [i \in DOMAIN F.disk |->
                    IF \E k \in DOMAIN F.temp_files : F.temp_files[k] = i
                    THEN FALSE ELSE F.disk[i]],
        !.temp_files = <<>>]

\* the file a remote path names, if it names one
IsRemoteFile(remote_path) ==
    /\ remote_path # <<>>
    /\ ParentPath(remote_path) \in Dirs(srv.tree)
    /\ \E i \in DOMAIN srv.tree[ParentPath(remote_path)] :
          LET e == srv.tree[ParentPath(remote_path)][i]
          IN e.name = remote_path[Len(remote_path)] /\ e.type = "file"

RemoteContent(remote_path) ==
    LET entries == srv.tree[ParentPath(remote_path)]
        i == CHOOSE k \in DOMAIN entries :
                 entries[k].name = remote_path[Len(remote_path)] /\ entries[k].type = "file"
    IN entries[i].content

\* ftp.retrbinary("RETR " + remote_path, callback): a path that is no file is
\* rejected; a transfer may break off midway (retr = "midway")
RetrOutcome(st, remote_path, retr) ==
    IF CmdGate(st) # "ok" THEN CmdGate(st)
    ELSE IF ~IsRemoteFile(remote_path) THEN "perm"
    ELSE IF retr = "midway" THEN "temp"
    ELSE "ok"

\* a faulty variant of RecordScratch: the path is not recorded for cleanup
RecordScratchForgets(files, local_path) == files

\* self.temp_files.append(local_path)
RecordScratch(files, local_path) == Append(files, local_path)

\* _download_image: "content" is what the scratch file holds afterwards
DownloadImage(F, remote_path, retr) ==
    IF F.ftp = 0 THEN
        [F |-> F, ok |-> FALSE, kind |-> "RuntimeError",
         msg |-> "FTP connection is not established", cause |-> "none",
         local_path |-> 0, content |-> "none"]
    ELSE
        LET local_path == Len(F.disk) + 1
            got == RetrOutcome(HandleState(F), remote_path, retr)
            F1 == [F EXCEPT !.disk = Append(@, TRUE),
                            !.temp_files = RecordScratch(@, local_path)]
        IN IF got = "ok"
           THEN [F |-> F1, ok |-> TRUE, kind |-> "none", msg |-> "none",
                 cause |-> "none", local_path |-> local_path,
                 content |-> RemoteContent(remote_path)]
           ELSE [F |-> F1, ok |-> FALSE, kind |-> "RuntimeError",
                 msg |-> "Failed to download image", cause |-> got,
                 local_path |-> local_path,
                 content |-> IF got = "temp" THEN "partial" ELSE "empty"]

(***************************************************************************)
(* Images.  An image is [w, h, px]: px maps the pixel at column x and row  *)
(* y (from 0, the origin at the top left) to its value; the value of a     *)
(* source pixel is its own position <<x, y>> in the stored file.           *)
(***************************************************************************)
Pixels(w, h) == (0..(w - 1)) \X (0..(h - 1))
SourceImage(w, h) == [w |-> w, h |-> h, px |-> [p \in Pixels(w, h) |-> p]]
NoImage == [w |-> 0, h |-> 0, px |-> <<>>]

\* Image.transpose(ROTATE_90): a quarter turn counter-clockwise
Rotate90(img) ==
    [w |-> img.h, h |-> img.w,
     px |-> [p \in Pixels(img.h, img.w) |-> img.px[<<img.w - 1 - p[2], p[1]>>]]]

\* Image.transpose(ROTATE_270): a quarter turn clockwise
Rotate270(img) ==
    [w |-> img.h, h |-> img.w,
     px |-> [p \in Pixels(img.h, img.w) |-> img.px[<<p[2], img.h - 1 - p[1]>>]]]

\* Image.transpose(ROTATE_180)
Rotate180(img) ==
    [w |-> img.w, h |-> img.h,
     px |-> [p \in Pixels(img.w, img.h) |-> img.px[<<img.w - 1 - p[1], img.h - 1 - p[2]>>]]]

\* what the bytes of a file decode to: the stored pixels and the EXIF
\* orientation tag (1: upright); files that are no image do not decode
Decodable == {"portrait", "landscape", "square", "sideways"}
Stored(content) ==
    IF content = "portrait" THEN SourceImage(2, 3)
    ELSE IF content = "landscape" THEN SourceImage(3, 2)
    ELSE IF content = "sideways" THEN SourceImage(3, 2)
    ELSE SourceImage(2, 2)
Orientation(content) == IF content = "sideways" THEN 6 ELSE 1

\* ImageOps.exif_transpose: orientation 3, 6, 8 are the three rotations
ExifTranspose(img, orientation) ==
    IF orientation = 3 THEN Rotate180(img)
    ELSE IF orientation = 6 THEN Rotate270(img)
    ELSE IF orientation = 8 THEN Rotate90(img)
    ELSE img

\* a pixel no source pixel stands behind
Blank == <<-1, -1>>

\* Image.crop((left, top, right, bottom)): the part of the box that lies
\* outside the image is filled with blank pixels
Crop(img, left, top, right, bottom) ==
    [w |-> right - left, h |-> bottom - top,
     px |-> [p \in Pixels(right - left, bottom - top) |->
                IF <<p[1] + left, p[2] + top>> \in DOMAIN img.px
                THEN img.px[<<p[1] + left, p[2] + top>>]
                ELSE Blank]]

\* int(a / b) for a >= 0, b > 0
IntDiv(a, b) == a \div b

\* round(a / b) of Python for a >= 0, b > 0: to the nearest, a tie to even
Round(a, b) ==
    LET q == a \div b
        r == a % b
    IN IF 2 * r < b THEN q
       ELSE IF 2 * r > b THEN q + 1
       ELSE IF q % 2 = 0 THEN q ELSE q + 1

\* img.rotate(90, expand=True): PIL turns counter-clockwise
RotateVertical(img) == Rotate90(img)

\* a faulty variant of CropBox: the window is anchored at the top left corner
CropBoxAtOrigin(img, dims) ==
    IF img.w * dims[2] > dims[1] * img.h
    THEN [left |-> 0, top |-> 0, right |-> IntDiv(img.h * dims[1], dims[2]),
          bottom |-> img.h]
    ELSE [left |-> 0, top |-> 0, right |-> img.w,
          bottom |-> IntDiv(img.w * dims[2], dims[1])]

\* a faulty variant of CropBranch: the width is cropped whatever the aspects
CropBranchWidth(img, dims) == "width"

\* "if img_aspect > display_aspect" with img_aspect = img_width / img_height
\* and display_aspect = display_width / display_height: which side is cropped
CropBranch(img, dims) ==
    IF img.w * dims[2] > dims[1] * img.h THEN "width" ELSE "height"

\* the box the "crop" branch of _get_image hands to img.crop
CropBox(img, dims) ==
    LET display_width == dims[1]
        display_height == dims[2]
    IN IF CropBranch(img, dims) = "width" THEN
           LET new_width == IntDiv(img.h * display_width, display_height)
               left == (img.w - new_width) \div 2
           IN [left |-> left, top |-> 0, right |-> left + new_width, bottom |-> img.h]
       ELSE
           LET new_height == IntDiv(img.w * display_height, display_width)
               top == (img.h - new_height) \div 2
           IN [left |-> 0, top |-> top, right |-> img.w, bottom |-> top + new_height]

\* the "crop" branch of _get_image
CropVertical(img, dims) ==
    LET box == CropBox(img, dims)
    IN Crop(img, box.left, box.top, box.right, box.bottom)

\* the handling of a portrait image on a landscape display
HandleVertical(img, dims, vertical_handling) ==
    IF img.h > img.w /\ dims[1] > dims[2] THEN
        IF vertical_handling = "rotate" THEN RotateVertical(img)
        ELSE IF vertical_handling = "crop" THEN CropVertical(img, dims)
        ELSE img
    ELSE img

\* the size ImageOps.contain(img, dimensions) resizes to
ContainSize(img, dims) ==
    IF img.w * dims[2] = dims[1] * img.h THEN dims
    ELSE IF img.w * dims[2] > dims[1] * img.h
         THEN <<dims[1], Round(img.h * dims[1], img.w)>>
    ELSE <<Round(img.w * dims[2], img.h), dims[2]>>

\* a faulty variant of FinalSize: the image is never fitted to the display
FinalSizeKeeps(img, dims, padImage) == <<img.w, img.h>>

\* the size of the image _get_image returns
FinalSize(img, dims, padImage) ==
    IF padImage THEN ContainSize(img, dims) ELSE dims

\* lines 308-341 of _get_image on a decoded image: what the vertical handling
\* leaves, the box it cropped to, and the size of the image returned.  A crop
\* may leave an image without rows; ImageOps.contain then divides by its
\* height and raises, and what Image.resize does with it depends on the
\* Pillow release: it raises or it returns an image of the display's size.
FitOutcomes(decoded, dims, vertical_handling, padImage) ==
    LET fitted == HandleVertical(decoded, dims, vertical_handling)
        cropped == /\ decoded.h > decoded.w /\ dims[1] > dims[2]
                   /\ vertical_handling = "crop"
        box == IF cropped THEN CropBox(decoded, dims)
               ELSE [left |-> 0, top |-> 0, right |-> decoded.w, bottom |-> decoded.h]
        branch == IF cropped THEN CropBranch(decoded, dims) ELSE "none"
        raised == [ok |-> FALSE, fitted |-> fitted, box |-> box, branch |-> branch,
                   size |-> <<0, 0>>]
        returned(size) == [ok |-> TRUE, fitted |-> fitted, box |-> box,
                           branch |-> branch, size |-> size]
    IN IF fitted.w = 0 \/ fitted.h = 0 THEN
           IF padImage THEN {raised} ELSE {raised, returned(dims)}
       ELSE {returned(FinalSize(fitted, dims, padImage))}

(***************************************************************************)
(* _get_image and generate_image.                                          *)
(***************************************************************************)
NoPath == << <<"-">> >>

\* what an operation reports: "ok" is FALSE when it raised, "kind" is the
\* class of the exception the caller sees, "cause" the class of the exception
\* it wraps and "why" that exception's message; "walk" says whether the
\* enumerator ran and how it ended, "fetched" lists the remote paths RETR was
\* sent for and "created" the scratch files made
NoResult ==
    [op |-> "none", ok |-> TRUE, kind |-> "none", msg |-> "none", cause |-> "none",
     why |-> "none", path |-> NoPath, directories |-> <<>>, files |-> <<>>,
     images |-> <<>>, walk |-> "none", fetched |-> <<>>, created |-> <<>>,
     server |-> "", selected_image |-> NoPath, selected |-> NoPath, decoded |-> NoImage, fitted |-> NoImage,
     size |-> <<0, 0>>, dims |-> <<0, 0>>, random_mode |-> FALSE,
     vertical_handling |-> "none", padImage |-> FALSE,
     box |-> [left |-> 0, top |-> 0, right |-> 0, bottom |-> 0],
     held |-> 0, entered_from |-> Root, branch |-> "none"]

\* the paths random.choice(images) may return
RandomChoice(images) == {images[i] : i \in DOMAIN images}

\* the except clause that ends _get_image: every exception leaves as a
\* RuntimeError that wraps it
GetImageRaised(F, base, cause, why) ==
    [F |-> F,
     result |-> [base EXCEPT !.ok = FALSE, !.kind = "RuntimeError",
                             !.msg = "Failed to get image", !.cause = cause,
                             !.why = why]]

\* _get_image(settings, dimensions); choice is what random.choice returns
GetImage(F, st, dims, net, choice) ==
    LET base == [NoResult EXCEPT !.op = "get_image", !.dims = dims,
                    !.path = st.current_path, !.random_mode = st.random_mode,
                    !.server = st.server, !.selected_image = st.selected_image,
                    !.vertical_handling = st.verticalHandling,
                    !.padImage = st.padImage]
        conn == ConnectFtp(F, net.quit, net.connect)
        F1 == conn.F
        walk == ListImagesRecursiveOn(HandleState(F1), st.current_path, F1.cwd)
        F2 == IF st.random_mode THEN [F1 EXCEPT !.cwd = walk.cwd] ELSE F1
        walked == IF st.random_mode
                  THEN [base EXCEPT !.walk = IF walk.ok THEN "returned" ELSE "raised",
                                    !.images = walk.images]
                  ELSE base
        selected_image == IF st.random_mode THEN choice ELSE st.selected_image
        got == DownloadImage(F2, selected_image, net.retr)
        fetchedR == [walked EXCEPT !.selected = selected_image,
                        !.fetched = <<selected_image>>,
                        !.created = <<got.local_path>>]
        decoded == ExifTranspose(Stored(got.content), Orientation(got.content))
        fitted == HandleVertical(decoded, dims, st.verticalHandling)
    IN IF st.server = "" THEN
           [F |-> F, result |-> [base EXCEPT !.ok = FALSE, !.kind = "ValueError",
                                    !.msg = "'server' option is required"]]
       ELSE IF ~conn.ok THEN
           [F |-> F1, result |-> [base EXCEPT !.ok = FALSE, !.kind = conn.kind,
                                     !.msg = conn.msg]]
       ELSE IF st.random_mode /\ ~walk.ok THEN
           GetImageRaised(F2, walked, "RuntimeError", walk.msg)
       ELSE IF st.random_mode /\ walk.images = <<>> THEN
           GetImageRaised(F2, walked, "FileNotFoundError", "No images found")
       ELSE IF ~st.random_mode /\ st.selected_image \in {NoPath, <<>>} THEN
           GetImageRaised(F2, walked, "ValueError", "No image selected")
       ELSE IF ~got.ok THEN
           GetImageRaised(got.F, fetchedR, "RuntimeError", got.msg)
       ELSE IF got.content \notin Decodable THEN
           GetImageRaised(got.F, fetchedR, "UnidentifiedImageError", "cannot identify image file")
       ELSE
           [F |-> got.F,
            result |-> [fetchedR EXCEPT !.decoded = decoded, !.fitted = fitted,
                           !.size = FinalSize(fitted, dims, st.padImage)]]

\* generate_image: the display's resolution, turned when the display stands
\* upright
Dimensions(resolution, orientation) ==
    IF orientation = "vertical" THEN <<resolution[2], resolution[1]>> ELSE resolution

(***************************************************************************)
(* The inputs of the operations.                                           *)
(***************************************************************************)
\* the settings of a request: server is "" when the option is missing, and
\* selected_image is NoPath when it is missing, <<>> when it is ""
SelectedPool == {NoPath, <<>>, <<n_a_jpg>>, <<n_d, n_a_jpg>>, <<n_c_txt>>,
                 <<n_E, n_h_bmp>>, <<n_d, n_E, n_f_gif>>}
DefaultSettings ==
    [server |-> "", random_mode |-> FALSE, selected_image |-> NoPath,
     current_path |-> Root, verticalHandling |-> "rotate", padImage |-> FALSE]

\* the options that say which image to fetch (the others at their defaults):
\* no server; random mode under a path; a selected image or none
SelectionPool ==
    {DefaultSettings}
    \cup {[DefaultSettings EXCEPT !.server = "host", !.random_mode = TRUE,
                                  !.current_path = p] : p \in {Root, <<n_d>>, <<n_x_jpg>>}}
    \cup {[DefaultSettings EXCEPT !.server = "host", !.selected_image = p] :
             p \in SelectedPool}

\* the options and the display an image is fitted to: _get_image reads them
\* only once it has decoded an image
DefaultRender == [verticalHandling |-> "rotate", padImage |-> FALSE,
                  resolution |-> <<3, 2>>, orientation |-> "horizontal"]
RenderPool == [verticalHandling : {"rotate", "crop"}, padImage : BOOLEAN,
               resolution : {<<3, 2>>},
               orientation : {"horizontal", "vertical"}]

\* what the network does during one request: quit() is called only on a
\* handle the instance holds, connect() only when a server is given
NetPool(server) ==
    [quit : IF ftp = 0 \/ server = "" THEN {"ok"} ELSE {"ok", "fail"},
     connect : IF server = "" THEN {"ok"} ELSE {"ok", "refused", "rejected"},
     retr : {"ok", "midway"}]

\* the servers the requests of Spec run against
RequestServers ==
    { [tree |-> TreeDeep, rich |-> TRUE, fdir |-> NoDir, fault |-> NoFault],
      [tree |-> TreeOneImage, rich |-> FALSE, fdir |-> NoDir, fault |-> NoFault],
      [tree |-> TreeNoImage, rich |-> TRUE, fdir |-> NoDir, fault |-> NoFault] }

\* the paths a caller asks about: the directories of the tree, a file, and a
\* path that does not exist
PathPool == Dirs(srv.tree) \cup {<<n_a_jpg>>, <<n_x_jpg, n_E>>}

(***************************************************************************)
(* The state machine: one action for each method of the plugin that a      *)
(* caller may run, and one for each HTTP handler of the blueprint.         *)
(***************************************************************************)
\* __init__
InitFacade ==
    /\ alive = TRUE
    /\ ftp = 0
    /\ conns = <<>>
    /\ workdir = Root
    /\ temp_files = <<>>
    /\ disk = <<>>
    /\ result = NoResult
    /\ stack = <<>>
    /\ log = <<>>

\* __init__ followed by a _connect_ftp that went through
InitConnected ==
    /\ alive = TRUE
    /\ ftp = 1
    /\ conns = <<"open">>
    /\ workdir = Root
    /\ temp_files = <<>>
    /\ disk = <<>>
    /\ result = [NoResult EXCEPT !.op = "connect"]
    /\ stack = <<>>
    /\ log = <<>>

SetFacade(F) ==
    /\ ftp' = F.ftp
    /\ conns' = F.conns
    /\ workdir' = F.cwd
    /\ temp_files' = F.temp_files
    /\ disk' = F.disk

\* self._connect_ftp(...)
Connect ==
    /\ alive
    /\ Len(conns) < MaxConns
    /\ \E quit \in {"ok", "fail"}, outcome \in {"ok", "refused", "rejected"} :
          LET c == ConnectFtp(Facade, quit, outcome)
          IN /\ SetFacade(c.F)
             /\ result' = [NoResult EXCEPT !.op = "connect", !.ok = c.ok,
                              !.kind = c.kind, !.msg = c.msg]
    /\ UNCHANGED <<srv, alive>>
    /\ UNCHANGED <<stack, log>>

\* self._close_ftp()
Close ==
    /\ alive
    /\ \E quit \in {"ok", "fail"} :
          /\ SetFacade(CloseFtp(Facade, quit))
          /\ result' = [NoResult EXCEPT !.op = "close", !.held = ftp,
                           !.ok = CloseFtpRaises(Facade, quit) = "none",
                           !.kind = CloseFtpRaises(Facade, quit)]
    /\ UNCHANGED <<srv, alive>>
    /\ UNCHANGED <<stack, log>>

\* self._list_directory(path)
ListDirectory ==
    /\ alive
    /\ \E path \in PathPool :
          IF ftp = 0 THEN
              /\ result' = [NoResult EXCEPT !.op = "list", !.path = path, !.ok = FALSE,
                               !.kind = "RuntimeError",
                               !.msg = "FTP connection is not established"]
              /\ workdir' = workdir
          ELSE
              LET l == ListDirectoryOn(HandleState(Facade), path, workdir)
              IN /\ workdir' = l.cwd
                 /\ result' = [NoResult EXCEPT !.op = "list", !.path = path,
                                  !.ok = l.ok, !.kind = l.kind, !.msg = l.msg,
                                  !.cause = l.cause, !.directories = l.directories,
                                  !.files = l.files]
    /\ UNCHANGED <<srv, alive, ftp, conns, temp_files, disk>>
    /\ UNCHANGED <<stack, log>>

\* self._list_images_recursive(path)
ListImagesRecursive ==
    /\ alive
    /\ \E path \in PathPool :
          IF ftp = 0 THEN
              /\ result' = [NoResult EXCEPT !.op = "walk", !.path = path, !.ok = FALSE,
                               !.kind = "RuntimeError",
                               !.msg = "FTP connection is not established"]
              /\ workdir' = workdir
          ELSE
              LET w == ListImagesRecursiveOn(HandleState(Facade), path, workdir)
              IN /\ workdir' = w.cwd
                 /\ result' = [NoResult EXCEPT !.op = "walk", !.path = path,
                                  !.ok = w.ok, !.kind = w.kind, !.msg = w.msg,
                                  !.cause = w.cause, !.images = w.images,
                                  !.walk = IF w.ok THEN "returned" ELSE "raised"]
    /\ UNCHANGED <<srv, alive, ftp, conns, temp_files, disk>>
    /\ UNCHANGED <<stack, log>>

\* self._download_image(remote_path)
Download ==
    /\ alive
    /\ Len(disk) < MaxScratch
    /\ \E remote_path \in SelectedPool \ {NoPath, <<>>}, retr \in {"ok", "midway"} :
          LET d == DownloadImage(Facade, remote_path, retr)
          IN /\ SetFacade(d.F)
             /\ result' = [NoResult EXCEPT !.op = "download", !.ok = d.ok,
                              !.kind = d.kind, !.msg = d.msg, !.cause = d.cause,
                              !.selected = remote_path,
                              !.fetched = IF d.local_path = 0 THEN <<>>
                                          ELSE <<remote_path>>,
                              !.created = IF d.local_path = 0 THEN <<>>
                                          ELSE <<d.local_path>>]
    /\ UNCHANGED <<srv, alive>>
    /\ UNCHANGED <<stack, log>>

\* generate_image(settings, device_config)
GenerateImage ==
    /\ alive
    /\ Len(conns) < MaxConns
    /\ Len(disk) < MaxScratch
    /\ \E sel \in SelectionPool :
       \E net \in NetPool(sel.server) :
          LET images == IF sel.server # "" /\ net.connect = "ok" /\ sel.random_mode
                        THEN ListImagesRecursiveOn("open", sel.current_path, Root).images
                        ELSE <<>>
          IN \E choice \in (IF images = <<>> THEN {NoPath} ELSE RandomChoice(images)) :
                LET decodes == GetImage(Facade, sel, DefaultRender.resolution,
                                        net, choice).result.ok
                IN \E r \in (IF decodes THEN RenderPool ELSE {DefaultRender}) :
                      LET st == [sel EXCEPT !.verticalHandling = r.verticalHandling,
                                            !.padImage = r.padImage]
                          dims == Dimensions(r.resolution, r.orientation)
                          g == GetImage(Facade, st, dims, net, choice)
                      IN /\ SetFacade(g.F)
                         /\ result' = g.result
    /\ UNCHANGED <<srv, alive>>
    /\ UNCHANGED <<stack, log>>

\* __del__
Delete ==
    /\ alive
    /\ \E quit \in {"ok", "fail"} :
          SetFacade(CloseFtp(CleanupTempFiles(Facade), quit))
    /\ alive' = FALSE
    /\ result' = [NoResult EXCEPT !.op = "del"]
    /\ UNCHANGED srv
    /\ UNCHANGED <<stack, log>>

\* the call in progress, and what an action makes of it
WalkState == [stack |-> stack, cwd |-> workdir, log |-> log, out |-> Running]

SetWalk(W, path, entered_from) ==
    /\ stack' = W.stack
    /\ log' = W.log
    /\ workdir' = W.cwd
    /\ result' =
          IF W.out = Running
          THEN [NoResult EXCEPT !.op = "walking", !.path = path,
                                !.entered_from = entered_from]
          ELSE [NoResult EXCEPT !.op = "walk", !.path = path,
                   !.entered_from = entered_from, !.ok = W.out.ok,
                   !.kind = IF W.out.ok THEN "none" ELSE "RuntimeError",
                   !.msg = IF W.out.ok THEN "none" ELSE "Failed to list images",
                   !.cause = W.out.cause, !.images = W.out.images,
                   !.walk = IF W.out.ok THEN "returned" ELSE "raised"]

\* self._list_images_recursive(path) is called: the outermost level is entered
WalkStart ==
    /\ alive
    /\ ftp # 0
    /\ result.op # "walking"
    /\ \E path \in PathPool :
          SetWalk(EnterLevel([WalkState EXCEPT !.stack = <<>>, !.log = <<>>],
                             HandleState(Facade), path),
                  path, workdir)
    /\ UNCHANGED <<srv, alive, ftp, conns, temp_files, disk>>

\* the call in progress takes its next step
WalkStep ==
    /\ alive
    /\ result.op = "walking"
    /\ SetWalk(StepLevel(WalkState, HandleState(Facade)), result.path,
               result.entered_from)
    /\ UNCHANGED <<srv, alive, ftp, conns, temp_files, disk>>

\* the images and displays the fitting is checked on: every size up to
\* MaxSide, both policies, padImage on and off
FitInputs ==
    [w : 1..MaxSide, h : 1..MaxSide, dims : (1..MaxSide) \X (1..MaxSide),
     verticalHandling : {"rotate", "crop"}, padImage : BOOLEAN]

\* _get_image has connected, fetched a file and decoded it (line 306)
InitDecoded ==
    /\ alive = TRUE
    /\ ftp = 1
    /\ conns = <<"open">>
    /\ workdir = Root
    /\ temp_files = <<1>>
    /\ disk = <<TRUE>>
    /\ \E i \in FitInputs :
          result = [NoResult EXCEPT !.op = "decoded", !.server = "host",
                       !.decoded = SourceImage(i.w, i.h), !.dims = i.dims,
                       !.vertical_handling = i.verticalHandling,
                       !.padImage = i.padImage]
    /\ stack = <<>>
    /\ log = <<>>

\* lines 308-345 of _get_image: the decoded image is fitted to the display
FitImage ==
    /\ alive
    /\ result.op = "decoded"
    /\ \E out \in FitOutcomes(result.decoded, result.dims, result.vertical_handling,
                              result.padImage) :
          result' = [result EXCEPT !.op = "fit", !.ok = out.ok,
                        !.kind = IF out.ok THEN "none" ELSE "RuntimeError",
                        !.msg = IF out.ok THEN "none" ELSE "Failed to get image",
                        !.fitted = out.fitted, !.box = out.box,
                        !.branch = out.branch, !.size = out.size]
    /\ UNCHANGED <<srv, alive, ftp, conns, workdir, temp_files, disk>>
    /\ UNCHANGED <<stack, log>>

\* the blueprint's list_directory handler: connect, list, quit
ApiListDirectory ==
    /\ \E path \in PathPool, outcome \in {"ok", "refused", "rejected"} :
          LET l == ListDirectoryOn("open", path, Root)
          IN result' =
                IF outcome # "ok"
                THEN [NoResult EXCEPT !.op = "api_list", !.path = path, !.ok = FALSE,
                         !.kind = "500", !.msg = "Failed to connect to FTP server"]
                ELSE [NoResult EXCEPT !.op = "api_list", !.path = path, !.ok = l.ok,
                         !.kind = IF l.ok THEN "200" ELSE "500", !.msg = l.msg,
                         !.cause = l.cause, !.directories = l.directories,
                         !.files = l.files]
    /\ UNCHANGED <<srv, alive, ftp, conns, workdir, temp_files, disk>>
    /\ UNCHANGED <<stack, log>>

\* the blueprint's _download_image on a fresh session: the scratch file is
\* made (delete=False) before RETR is sent; local_path is what the caller
\* receives, 0 when the function raised
ApiDownloadImage(files, remote_path, retr) ==
    LET made == Len(files) + 1
        got == RetrOutcome("open", remote_path, retr)
    IN [disk |-> Append(files, TRUE), made |-> made, ok |-> got = "ok",
        cause |-> IF got = "ok" THEN "none" ELSE got,
        local_path |-> IF got = "ok" THEN made ELSE 0,
        content |-> IF got = "ok" THEN RemoteContent(remote_path) ELSE "none"]

\* the finally block of preview_image:
\* if local_path and os.path.exists(local_path): os.remove(local_path)
ApiRemoveScratch(files, local_path) ==
    IF local_path # 0 /\ files[local_path]
    THEN [files EXCEPT ![local_path] = FALSE]
    ELSE files

\* the paths a preview is asked for: none, image files, a file that is no
\* image, a file whose bytes do not decode, a directory, a missing file
PreviewPool == {NoPath, <<n_a_jpg>>, <<n_c_txt>>, <<n_d>>, <<n_d, n_E, n_f_gif>>,
                <<n_E, n_h_bmp>>}

\* the blueprint's preview_image handler: connect, download, thumbnail, quit,
\* remove the scratch file
ApiPreviewImage ==
    /\ Len(disk) < MaxScratch
    /\ \E server \in {"", "host"}, path \in PreviewPool,
          outcome \in {"ok", "refused"}, retr \in {"ok", "midway"} :
          LET d == ApiDownloadImage(disk, path, retr)
              asked == [NoResult EXCEPT !.op = "api_preview", !.server = server,
                                        !.path = path]
              fetched == [asked EXCEPT !.fetched = <<path>>, !.created = <<d.made>>]
          IN IF server = "" THEN
                 /\ disk' = disk
                 /\ result' = [asked EXCEPT !.ok = FALSE, !.kind = "400",
                                            !.msg = "Server is required"]
             ELSE IF path = NoPath THEN
                 /\ disk' = disk
                 /\ result' = [asked EXCEPT !.ok = FALSE, !.kind = "400",
                                            !.msg = "Image path is required"]
             ELSE IF outcome # "ok" THEN
                 /\ disk' = disk
                 /\ result' = [asked EXCEPT !.ok = FALSE, !.kind = "500",
                                            !.msg = "Failed to connect to FTP server"]
             ELSE IF ~d.ok THEN
                 /\ disk' = ApiRemoveScratch(d.disk, d.local_path)
                 /\ result' = [fetched EXCEPT !.ok = FALSE, !.kind = "500",
                                              !.msg = "Failed to download image",
                                              !.cause = d.cause]
             ELSE IF d.content \notin Decodable THEN
                 /\ disk' = ApiRemoveScratch(d.disk, d.local_path)
                 /\ result' = [fetched EXCEPT !.ok = FALSE, !.kind = "500",
                                              !.msg = "cannot identify image file",
                                              !.cause = "UnidentifiedImageError"]
             ELSE
                 /\ disk' = ApiRemoveScratch(d.disk, d.local_path)
                 /\ result' = [fetched EXCEPT !.kind = "200"]
    /\ UNCHANGED <<srv, alive, ftp, conns, workdir, temp_files>>
    /\ UNCHANGED <<stack, log>>

(***************************************************************************)
(* Spec: the requests of the display pipeline on one plugin instance.      *)
(***************************************************************************)
Init == srv \in RequestServers /\ InitFacade

Next ==
    \/ GenerateImage
    \/ Download
    \/ Delete

Spec == Init /\ [][Next]_vars

(***************************************************************************)
(* SpecWalk: listing and enumeration over an open session, against every   *)
(* server.                                                                 *)
(***************************************************************************)
InitWalk == srv \in Servers /\ InitConnected

NextWalk ==
    \/ ListDirectory
    \/ ListImagesRecursive
    \/ ApiListDirectory

SpecWalk == InitWalk /\ [][NextWalk]_vars

(***************************************************************************)
(* SpecConn: the connection methods called one by one.                     *)
(***************************************************************************)
NextConn ==
    \/ Connect
    \/ Close
    \/ ListDirectory
    \/ ListImagesRecursive
    \/ Download
    \/ Delete

SpecConn == Init /\ [][NextConn]_vars

(***************************************************************************)
(* SpecFit: the fitting of a decoded image, for every image and display    *)
(* size up to MaxSide.                                                     *)
(***************************************************************************)
InitFit ==
    /\ srv = [tree |-> TreeOneImage, rich |-> TRUE, fdir |-> NoDir, fault |-> NoFault]
    /\ InitDecoded

NextFit == FitImage

SpecFit == InitFit /\ [][NextFit]_vars

(***************************************************************************)
(* SpecStep: _list_images_recursive taken step by step over an open        *)
(* session, against every server.  A call that has started keeps running:  *)
(* the interpreter executes it to its end.                                 *)
(***************************************************************************)
InitStep == srv \in Servers /\ InitConnected

NextStep ==
    \/ WalkStart
    \/ WalkStep

SpecStep == InitStep /\ [][NextStep]_vars /\ WF_vars(WalkStep)

(***************************************************************************)
(* SpecApi: the HTTP handlers of the blueprint, each on a session of its    *)
(* own, against every server.                                              *)
(***************************************************************************)
InitApi == srv \in Servers /\ InitFacade

NextApi ==
    \/ ApiListDirectory
    \/ ApiPreviewImage

SpecApi == InitApi /\ [][NextApi]_vars

(***************************************************************************)
(* Properties.                                                             *)
(***************************************************************************)
\* the request went past the connection: a server was given and connect and
\* login went through
RequestConnected ==
    /\ result.op = "get_image"
    /\ result.server # ""
    /\ result.msg # "Failed to connect to FTP server"

\* C1: when a produceImage request has completed, by returning an image or by
\* failing at any step, the instance holds no live connection: the session
\* opened for the request has been closed.
C1_SessionClosedAfterRequest ==
    result.op = "get_image" =>
        /\ ftp = 0
        /\ \A h \in DOMAIN conns : conns[h] \notin {"open", "nologin"}

\* C2: when a produceImage request has completed, by returning an image or by
\* failing (a fetch that breaks off midway included), every scratch file the
\* request created has been deleted.
C2_ScratchDeletedAfterRequest ==
    result.op = "get_image" =>
        \A k \in DOMAIN result.created : ~disk[result.created[k]]

\* p is path or lies below it
IsUnder(p, path) == Len(p) >= Len(path) /\ SubSeq(p, 1, Len(path)) = path

\* the paths of the image files of the tree at or below path
ImagesUnder(path) ==
    { JoinPath(d, srv.tree[d][i].name) :
        <<d, i>> \in {di \in Dirs(srv.tree) \X (1..7) :
                        /\ di[2] \in DOMAIN srv.tree[di[1]]
                        /\ IsUnder(di[1], path)
                        /\ srv.tree[di[1]][di[2]].type = "file"
                        /\ srv.tree[di[1]][di[2]].image} }

SeqToSet(seq) == {seq[i] : i \in DOMAIN seq}
NoDuplicates(seq) == \A i, j \in DOMAIN seq : seq[i] = seq[j] => i = j

\* a walk from a directory of a server all of whose directories can be read
WalkOfReadableTree ==
    /\ result.op = "walk"
    /\ result.path \in Dirs(srv.tree)
    /\ srv.fdir = NoDir

\* a walk from a directory that has exactly one unreadable directory below it:
\* one that cannot be entered, or one whose listing is refused
WalkPastUnreadable ==
    /\ result.op = "walk"
    /\ result.path \in Dirs(srv.tree)
    /\ srv.fdir # NoDir
    /\ srv.fdir # result.path
    /\ IsUnder(srv.fdir, result.path)
    /\ \/ srv.fault.cwd = "perm"
       \/ srv.fault.mlsd = "perm" /\ srv.fault.nlst = "perm"

\* the images at or below path that are not in the unreadable subtree
ImagesOutsideFault(path) == {p \in ImagesUnder(path) : ~IsUnder(p, srv.fdir)}

\* C3 as claimed: the walk returns exactly one path for each image file, on a
\* server with rich listing and on one with name listing alike; with exactly
\* one unreadable subdirectory it returns exactly the images outside that
\* subtree.
C3_WalkReturnsExactlyImages ==
    /\ WalkOfReadableTree =>
          /\ result.ok
          /\ NoDuplicates(result.images)
          /\ SeqToSet(result.images) = ImagesUnder(result.path)
    /\ WalkPastUnreadable =>
          /\ result.ok
          /\ NoDuplicates(result.images)
          /\ SeqToSet(result.images) = ImagesOutsideFault(result.path)

\* the unreadable directory is listed by name only (its parent's MLSD is
\* refused), cannot be entered, and has a name with an image extension: the
\* probe takes it for a file
FaultTakenForImage ==
    /\ ~srv.rich
    /\ srv.fault.cwd = "perm"
    /\ IsImageName(srv.fdir[Len(srv.fdir)])

\* C3 as amended: as claimed, except that on a name-listing server an
\* unreadable subdirectory that cannot be entered and whose own name ends in
\* an image extension is itself returned as one path.
C3_WalkReturnsImagesAmended ==
    /\ WalkOfReadableTree =>
          /\ result.ok
          /\ NoDuplicates(result.images)
          /\ SeqToSet(result.images) = ImagesUnder(result.path)
    /\ WalkPastUnreadable =>
          /\ result.ok
          /\ NoDuplicates(result.images)
          /\ SeqToSet(result.images) =
                ImagesOutsideFault(result.path)
                \cup (IF FaultTakenForImage THEN {srv.fdir} ELSE {})

\* C3's case: a name-listing server, a nested tree, one directory that cannot
\* be entered; the walk from the root returns the four images outside it
C3_Witness ==
    /\ WalkPastUnreadable
    /\ ~srv.rich
    /\ srv.tree = TreeDeep
    /\ srv.fdir = <<n_d>>
    /\ srv.fault.cwd = "perm"
    /\ result.path = Root
    /\ result.ok
    /\ Len(result.images) = 4

\* the root of the walk could not be entered
RootNotEntered(path) == CwdOutcome("open", path) # "ok"

\* the root was entered and its own listing failed: MLSD raised something
\* the fallback does not catch, or NLST raised anything but a decode error
RootListingFailed(path) ==
    /\ CwdOutcome("open", path) = "ok"
    /\ \/ MlsdOutcome("open", path) = "temp"
       \/ /\ MlsdOutcome("open", path) \in {"perm", "decode"}
          /\ NlstOutcome("open", path) \in {"perm", "temp"}

\* C4 as claimed: the walk raises only if its root cannot be entered.
C4_WalkFailsOnlyAtRootEntry ==
    (result.op = "walk" /\ ~result.ok) => RootNotEntered(result.path)

\* C4 as amended: the walk raises only if its root cannot be entered or the
\* root's own listing fails; no failure at an entry below the root makes it
\* raise.
C4_WalkFailsOnlyAtRoot ==
    (result.op = "walk" /\ ~result.ok) =>
        RootNotEntered(result.path) \/ RootListingFailed(result.path)

\* C4's case: a directory below the root of the walk refuses its listing, and
\* the walk returns the images of the other directories
C4_Witness ==
    /\ result.op = "walk"
    /\ result.path = Root
    /\ srv.fdir # NoDir
    /\ srv.fault.mlsd = "perm" /\ srv.fault.nlst = "perm"
    /\ result.ok
    /\ result.images # <<>>

\* a listing that was returned, by the plugin or by the blueprint
ListingReturned == result.op \in {"list", "api_list"} /\ result.ok

\* ascending by lower-cased name
SortedByLowerName(entries) ==
    \A i, j \in DOMAIN entries :
        i < j => ~StrLess(Lower(entries[j].name), Lower(entries[i].name))

\* C5: in every listing result, of the rich branch and of the fallback
\* branch, directories and files are each sorted ascending by lower-cased
\* name and neither holds an entry named "." or "..".
C5_ListingSortedWithoutDots ==
    ListingReturned =>
        /\ SortedByLowerName(result.directories)
        /\ SortedByLowerName(result.files)
        /\ \A i \in DOMAIN result.directories :
              result.directories[i].name \notin {nDot, nDotDot}
        /\ \A i \in DOMAIN result.files :
              result.files[i].name \notin {nDot, nDotDot}

\* C5's case: the fallback branch lists a directory whose server order
\* (B.Png, a.jpg) is not the sorted order and which holds "." and ".."
C5_Witness ==
    /\ ListingReturned
    /\ result.op = "list"
    /\ ~srv.rich
    /\ srv.tree = TreeDeep
    /\ result.path = Root
    /\ Len(result.directories) = 2
    /\ Len(result.files) = 2
    /\ result.files[1].name = n_a_jpg

\* the name ends, whatever its case, in one of the five extensions
HasImageExtension(name) ==
    \E ext \in {image_exts[i] : i \in DOMAIN image_exts} :
        /\ Len(name) >= Len(ext)
        /\ \A k \in DOMAIN ext : LowerChar[name[Len(name) - Len(ext) + k]] = ext[k]

\* the files of the listed directory that are no image files
OtherFilesOf(path) ==
    { JoinPath(path, srv.tree[path][i].name) :
        i \in {k \in DOMAIN srv.tree[path] :
                 srv.tree[path][k].type = "file" /\ ~srv.tree[path][k].image} }

\* C6: in every listing result, of either branch, every entry of files has a
\* name with an image extension, and no file that is not an image is
\* reported.
C6_ListingFilesAreImages ==
    ListingReturned =>
        /\ \A i \in DOMAIN result.files : HasImageExtension(result.files[i].name)
        /\ \A i \in DOMAIN result.files :
              result.files[i].path \notin OtherFilesOf(result.path)

\* C6's case: the listed directory holds a file that is no image next to
\* image files, and the listing reports the image files
C6_Witness ==
    /\ ListingReturned
    /\ OtherFilesOf(result.path) # {}
    /\ result.files # <<>>
    /\ ~srv.rich

\* C7: in random mode, when the enumerator returns exactly one path the
\* request fetches that path; when it returns none the request fails with
\* FileNotFoundError (the spec's NotFoundError) and fetches nothing.
C7_RandomModeDegenerateCases ==
    (RequestConnected /\ result.random_mode /\ result.walk = "returned") =>
        /\ Len(result.images) = 1 => result.fetched = <<result.images[1]>>
        /\ result.images = <<>> =>
              /\ ~result.ok
              /\ result.kind = "FileNotFoundError"
              /\ result.fetched = <<>>

\* C8: with random mode off and no selected image (missing or empty), the
\* request fails with ValueError (the spec's InvalidRequestError), without
\* enumerating, fetching or creating a scratch file.
C8_MissingSelectionRejected ==
    (RequestConnected /\ ~result.random_mode
                      /\ result.selected_image \in {NoPath, <<>>}) =>
        /\ ~result.ok
        /\ result.kind = "ValueError"
        /\ result.walk = "none"
        /\ result.fetched = <<>>
        /\ result.created = <<>>

\* a request that returned an image
ImageReturned == result.op = "get_image" /\ result.ok

C10_RotateIsClockwise ==
    (/\ ImageReturned
     /\ result.decoded.h > result.decoded.w
     /\ result.dims[1] > result.dims[2]
     /\ result.vertical_handling = "rotate") =>
        /\ result.fitted.w = result.decoded.h
        /\ result.fitted.h = result.decoded.w
        /\ \A x \in 0..(result.decoded.w - 1) :
              result.fitted.px[<<result.fitted.w - 1, x>>] = result.decoded.px[<<x, 0>>]
        /\ \A y \in 0..(result.decoded.h - 1) :
              result.fitted.px[<<result.decoded.h - 1 - y, 0>>] = result.decoded.px[<<0, y>>]

\* the crop policy was applied: a portrait image, a landscape display
CropApplied ==
    /\ result.op = "fit"
    /\ result.vertical_handling = "crop"
    /\ result.decoded.h > result.decoded.w
    /\ result.dims[1] > result.dims[2]

\* C11 as claimed: the crop window is centred exactly: as many rows are
\* removed at the top as at the bottom, and as many columns on the left as on
\* the right, for every image and display size.
C11_CropMarginsEqual ==
    CropApplied =>
        /\ result.box.top = result.decoded.h - result.box.bottom
        /\ result.box.left = result.decoded.w - result.box.right

\* C11 as amended: the window is centred to the pixel: the rows removed at the
\* bottom are those removed at the top or one more (one more exactly when an
\* odd number of rows is removed), and likewise the columns on the right.
C11_CropMarginsWithinOne ==
    CropApplied =>
        LET top == result.box.top
            bottom == result.decoded.h - result.box.bottom
            left == result.box.left
            right == result.decoded.w - result.box.right
        IN /\ top >= 0 /\ left >= 0
           /\ bottom - top \in {0, 1}
           /\ right - left \in {0, 1}
           /\ result.fitted.h = result.decoded.h - top - bottom
           /\ result.fitted.w = result.decoded.w - left - right

\* C11's case: an odd number of rows is removed (a 2x4 image on a 3x2
\* display keeps one row), so the margins cannot be equal
C11_Witness ==
    /\ CropApplied
    /\ result.decoded.w = 2 /\ result.decoded.h = 4
    /\ result.dims = <<3, 2>>
    /\ result.box.top = 1
    /\ result.box.bottom = 2

\* a call of _close_ftp has returned
CloseCalled == result.op = "close"

\* C12: _close_ftp never raises and leaves the instance holding no session,
\* whether it held one or none and whether quit() went through or failed; and
\* it is idempotent: called while no session is held it changes nothing.
C12_CloseNeverRaisesIdempotent ==
    /\ [](CloseCalled => (result.ok /\ ftp = 0))
    /\ [][(ftp = 0 /\ result'.op = "close") =>
              /\ result'.ok
              /\ UNCHANGED <<ftp, conns, workdir, temp_files, disk>>]_vars

\* C12's case: a close whose quit() failed, followed by a second close, which
\* found no session
C12_Witness ==
    /\ CloseCalled
    /\ result.held = 0
    /\ \E h \in DOMAIN conns : conns[h] = "abandoned"

\* the sessions of the instance that are open: the handles that connected and
\* logged in and on which quit() has not been called since
OpenSessions == {h \in DOMAIN conns : conns[h] = "open"}

\* C13: after any sequence of connect calls, successful or failing, at most
\* one session the instance opened is still open; it is the one self.ftp
\* names and it comes from the latest connect, which succeeded.  (Every
\* connect has called quit() on the session held before.)
C13_AtMostLatestSessionOpen ==
    /\ Cardinality(OpenSessions) <= 1
    /\ \A h \in OpenSessions : h = ftp /\ h = Len(conns)
    /\ \A h \in DOMAIN conns : h < Len(conns) => conns[h] # "open"

\* C13's case: a connect found a session, closed it and opened the next one
C13_Witness ==
    /\ result.op = "connect"
    /\ Len(conns) = 2
    /\ conns[1] \in {"closed", "abandoned"}
    /\ conns[2] = "open"

\* a request failed inside _get_image's try block: "cause" is the class of
\* the exception that was raised there
RequestFailedInside ==
    /\ result.op = "get_image"
    /\ ~result.ok
    /\ result.cause # "none"

\* C14: an error raised during a request reaches the caller with the kind it
\* was raised with, so a missing selection (ValueError), no image found
\* (FileNotFoundError) and a file that does not decode (PIL's
\* UnidentifiedImageError) do not arrive as the kind that connection,
\* enumeration and fetch failures arrive as (RuntimeError).
C14_ErrorKindUnmodified ==
    RequestFailedInside =>
        /\ result.kind = result.cause
        /\ result.cause \in {"ValueError", "FileNotFoundError", "UnidentifiedImageError"}
              => result.kind # "RuntimeError"

\* the scratch path is in self.temp_files
Recorded(local_path) == \E k \in DOMAIN temp_files : temp_files[k] = local_path

\* C15: while the instance lives, every scratch file that exists on disk is
\* recorded in self.temp_files: _download_image records the path when it has
\* created the file and before it starts the transfer, so the record is there
\* whether the transfer completes, is rejected or breaks off partway.
C15_ScratchRecordedWhileExists ==
    alive => \A i \in DOMAIN disk : disk[i] => Recorded(i)

\* C15's case: a transfer broke off partway; the scratch file it was writing
\* exists and is recorded
C15_Witness ==
    /\ result.op = "download"
    /\ ~result.ok
    /\ result.cause = "temp"
    /\ result.created # <<>>
    /\ disk[result.created[1]]
    /\ Recorded(result.created[1])

\* the step-by-step call has ended
WalkEnded == result.op = "walk" /\ log # <<>>

\* the step-by-step call ends as the call taken as a whole does: the same
\* outcome, the same images in the same order, the same working directory
StepwiseAgrees ==
    WalkEnded =>
        LET w == ListImagesRecursiveOn(HandleState(Facade), result.path,
                                       result.entered_from)
        IN /\ result.ok = w.ok
           /\ result.images = w.images
           /\ workdir = w.cwd
           /\ stack = <<>>

\* C16: whenever a directory level of the walk ends (by returning its images,
\* by the early return after a decode error, or by raising), the session's
\* working directory is the one it had when that level was entered
C16_LevelEndRestoresWorkdir ==
    \A i \in DOMAIN log : log[i].ev = "leave" => log[i].to = log[i].from

\* the entries by name and path, in their order
NamesAndPaths(entries) ==
    [i \in DOMAIN entries |-> <<entries[i].name, entries[i].path>>]

\* the listing a server with MLSD gives for the contents of path
RichListingOf(path) ==
    LET acc == ClassifyMlsd(path, MlsdEntries(path),
                            [directories |-> <<>>, files |-> <<>>, cwd |-> path,
                             raised |-> "none"])
    IN [directories |-> SortByName(acc.directories), files |-> SortByName(acc.files)]

\* the listing of path is made by the fallback: cwd(path) succeeds, mlsd() is
\* rejected, nlst() answers
ListedByFallback(path) ==
    /\ CwdOutcome("open", path) = "ok"
    /\ MlsdOutcome("open", path) = "perm"
    /\ NlstOutcome("open", path) = "ok"

\* every subdirectory of path can be entered
SubdirsEnterable(path) ==
    \A i \in DOMAIN srv.tree[path] :
        srv.tree[path][i].type = "dir" =>
            CwdOutcome("open", JoinPath(path, srv.tree[path][i].name)) = "ok"

\* a listing request that reached the server
ListingRequested ==
    /\ result.op \in {"list", "api_list"}
    /\ result.msg \notin {"FTP connection is not established",
                          "Failed to connect to FTP server"}

\* C17: for a directory whose subdirectories can all be entered, the listing
\* made by the fallback (names, each probed with a change of directory) holds
\* the same directories and the same files, by name and path and in the same
\* order, as the listing a server with the rich listing gives for the same
\* contents
C17_FallbackListingEqualsRich ==
    (ListingRequested /\ ListedByFallback(result.path)
                      /\ SubdirsEnterable(result.path)) =>
        /\ result.ok
        /\ NamesAndPaths(result.directories)
              = NamesAndPaths(RichListingOf(result.path).directories)
        /\ NamesAndPaths(result.files)
              = NamesAndPaths(RichListingOf(result.path).files)

\* C17's case: the fallback lists a directory with subdirectories, image
\* files, a file that is no image and the entries "." and ".."
C17_Witness ==
    /\ ListingRequested
    /\ ListedByFallback(result.path)
    /\ SubdirsEnterable(result.path)
    /\ srv.tree = TreeDeep
    /\ result.path = Root
    /\ Len(result.directories) = 2
    /\ Len(result.files) = 2
    /\ OtherFilesOf(Root) # {}

\* C18: on a finite tree without cycles the enumeration, once called, always
\* ends (it returns a list or raises), on servers with the rich listing and
\* on servers with name listing and probing
C18_WalkTerminates == (result.op = "walking") ~> (result.op = "walk")

\* C18's case: the walk of the whole deep tree on a server without the rich
\* listing has gone through every level, probing each name, and has ended
C18_Witness ==
    /\ WalkEnded
    /\ ~srv.rich
    /\ srv.tree = TreeDeep
    /\ result.path = Root
    /\ Cardinality({i \in DOMAIN log : log[i].ev = "leave"}) = Cardinality(Dirs(TreeDeep))
    /\ Cardinality({i \in DOMAIN log : log[i].ev = "nlst"}) = Cardinality(Dirs(TreeDeep))

\* the events of the log that concern the directory p
EventsAt(ev, p) == {i \in DOMAIN log : log[i].ev = ev /\ log[i].path = p}

\* a walk has ended that met, at or below its root, a directory that can be
\* entered, whose rich listing fails and whose name listing then fails with a
\* decode error
WalkMetDecodeError ==
    /\ WalkEnded
    /\ srv.fdir # NoDir
    /\ IsUnder(srv.fdir, result.path)
    /\ srv.fault.cwd = "ok"
    /\ srv.fault.mlsd \in {"perm", "decode"}
    /\ srv.fault.nlst = "decode"

\* C19: when at a directory of the walk the rich listing fails and the name
\* listing then fails with a decode error, the walk abandons that directory:
\* no image of it or of its subtree is returned, each listing command is
\* issued there once (no retry), nothing below it is entered, the working
\* directory is restored, no error is raised and the images of the other
\* directories are returned
C19_DecodeErrorAbandonsDirectory ==
    WalkMetDecodeError =>
        /\ result.ok
        /\ SeqToSet(result.images) = ImagesOutsideFault(result.path)
        /\ Cardinality(EventsAt("mlsd", srv.fdir)) = 1
        /\ Cardinality(EventsAt("nlst", srv.fdir)) = 1
        /\ Cardinality(EventsAt("leave", srv.fdir)) = 1
        /\ \A i \in EventsAt("leave", srv.fdir) :
              log[i].how = "abandoned" /\ log[i].to = log[i].from
        /\ \A i \in DOMAIN log :
              IsUnder(log[i].path, srv.fdir) => log[i].path = srv.fdir
        /\ workdir = result.entered_from

\* C19's case: the directory /d of the deep tree, which holds an image and a
\* subdirectory with an image, is abandoned; the walk from the root goes on
\* to its sibling /E and returns the four images outside /d
C19_Witness ==
    /\ WalkMetDecodeError
    /\ srv.tree = TreeDeep
    /\ srv.fdir = <<n_d>>
    /\ result.path = Root
    /\ ImagesUnder(<<n_d>>) # {}
    /\ Len(result.images) = 4
    /\ \E i \in EventsAt("leave", <<n_d>>), j \in EventsAt("enter", <<n_E>>) : i < j

\* C20: when the preview handler has answered, on success and on every
\* failure, every scratch file made for the request has been deleted
C20_PreviewScratchDeleted ==
    result.op = "api_preview" =>
        \A i \in DOMAIN result.created : ~disk[result.created[i]]

\* C21: under the crop policy, when the height is cropped the kept height is
\* round(W_img / (W/H)), the quotient W_img*H/W rounded to the nearest
\* integer, and when the width is cropped the kept width is
\* round(H_img * W/H), for every image and display size
C21_CropKeepsRoundedSize ==
    CropApplied =>
        /\ result.branch = "height" =>
              result.box.bottom - result.box.top
                  = Round(result.decoded.w * result.dims[2], result.dims[1])
        /\ result.branch = "width" =>
              result.box.right - result.box.left
                  = Round(result.decoded.h * result.dims[1], result.dims[2])

\* the instance holds no open session: no handle at all, or the handle a
\* failed connect left (never connected, or connected and not logged in)
NoOpenSession == ftp = 0 \/ conns[ftp] # "open"

\* C22: when connect fails (refused, or login rejected) the facade holds no
\* session handle afterwards, and every list, enumerate or fetch call made
\* while no session is open fails with "connection is not established"
\* without a command being issued
C22_FailedConnectLeavesNoHandle ==
    /\ (result.op = "connect" /\ ~result.ok) => ftp = 0
    /\ (result.op \in {"list", "walk", "download"} /\ NoOpenSession) =>
          /\ ~result.ok
          /\ result.msg = "FTP connection is not established"
          /\ result.cause = "none"

\* C23: whenever the crop policy is applied (image higher than wide, display
\* wider than high) the image's aspect is strictly below the display's, only
\* the height is cropped (the branch that crops the width is never taken) and
\* the cropped image keeps the full width of the source
C23_CropKeepsFullWidth ==
    CropApplied =>
        /\ result.decoded.w * result.dims[2] < result.dims[1] * result.decoded.h
        /\ result.branch = "height"
        /\ result.box.left = 0
        /\ result.box.right = result.decoded.w
        /\ result.fitted.w = result.decoded.w

\* C23's case: the crop policy removed rows of a portrait image (3x4 on a
\* 4x3 display keeps two rows) and kept every column
C23_Witness ==
    /\ CropApplied
    /\ result.ok
    /\ result.decoded.w = 3 /\ result.decoded.h = 4
    /\ result.dims = <<4, 3>>
    /\ result.branch = "height"
    /\ result.fitted.h = 2
    /\ result.fitted.w = 3

====
